---------------------------- MODULE Spec2Model ----------------------------
(***************************************************************************)
(* A model of cedargrove_chime.Chime (the chime/bell voice built on        *)
(* synthio) and of the wind-driven playback loop of chime_wind_algorithm.  *)
(*                                                                         *)
(* Real numbers are kept in fixed point:                                   *)
(*   times, levels, loudness, amplitudes, ratios, weights : hundredths     *)
(*   (0.02 s is 2, level 1.0 is 100, ratio 2.76 is 276);                   *)
(*   a product of two such values is in 1/10^4, of three in 1/10^6;        *)
(*   frequencies returned by midi_to_hz are in centihertz, so that a       *)
(*   partial's frequency (centihertz * ratio) is in 1/10^4 Hz.             *)
(* A pitch name ("G#5") is the sequence of its characters.                 *)
(***************************************************************************)
EXTENDS Integers, Sequences, FiniteSets

(***************************************************************************)
(* Bounds of the model.                                                    *)
(***************************************************************************)
\* strike() calls made on one Chime in the object-level specification
MaxStrikes == 2
\* longest scale (number of tubes) given to the wind script
MaxTubes == 6
\* note sequences (iterations of the while True loop) of the wind script
MaxGusts == 2

(***************************************************************************)
(* Preset tables of cedargrove_chime.py.                                   *)
(***************************************************************************)
Voice == [Bell |-> "bell", Perfect |-> "perfect", Tubular |-> "tubular"]

Scale ==
  [Westminister |-> << <<"G","#","5">>, <<"E","5">>, <<"F","#","5">>, <<"B","4">> >>,
   CNine        |-> << <<"C","5">>, <<"E","5">>, <<"G","5">>, <<"A","#","5">>, <<"D","6">> >>,
   HappyBirthday |-> << <<"C","6">>, <<"D","6">>, <<"E","6">>, <<"F","6">>, <<"G","6">>,
                        <<"A","6">>, <<"A","#","6">>, <<"B","6">>, <<"C","7">> >>,
   HarryDavidPear |-> << <<"F","#","5">>, <<"G","#","5">>, <<"B","5">>, <<"C","6">>,
                         <<"E","6">>, <<"G","6">> >>,
   CeramicBells |-> << >>]

\* [attack time, attack level, release time]
Material ==
  [SteelEMT |-> <<2, 100, 200>>,
   Ceramic  |-> <<10, 100, 80>>,
   Aluminum |-> <<2, 90, 130>>]

\* [attack time, attack level ratio]
Striker ==
  [Metal    |-> <<0, 100>>,
   SoftWood |-> <<5, 100>>]

\* (frequency factor, amplitude factor) of each overtone, the root first
Overtones ==
  [Bell    |-> << <<100, 80>>, <<148, 19>>, <<135, 1>>, <<172, 0>> >>,
   Perfect |-> << <<100, 60>>, <<200, 20>>, <<300, 10>>, <<400, 5>>, <<500, 5>>,
                  <<600, 0>>, <<700, 0>> >>,
   Tubular |-> << <<100, 60>>, <<276, 20>>, <<540, 10>>, <<893, 10>>, <<1134, 0>>,
                  <<1864, 0>>, <<3187, 0>> >>]

(***************************************************************************)
(* The services the module imports.                                        *)
(***************************************************************************)
NOTE_BASE ==
  << <<"C">>, <<"C","#">>, <<"D">>, <<"D","#">>, <<"E">>, <<"F">>,
     <<"F","#">>, <<"G">>, <<"G","#">>, <<"A">>, <<"A","#">>, <<"B">> >>

Digit == [c \in {"0","1","2","3","4","5","6","7","8","9"} |->
            CASE c = "0" -> 0 [] c = "1" -> 1 [] c = "2" -> 2 [] c = "3" -> 3
              [] c = "4" -> 4 [] c = "5" -> 5 [] c = "6" -> 6 [] c = "7" -> 7
              [] c = "8" -> 8 [] c = "9" -> 9]

\* cedargrove_midi_tools.name_to_note: the last character is the octave, the
\* rest the pitch class; C-1 is note 0, so "A4" is 9 + 12 * 5 = 69.
name_to_note(name) ==
  LET octave == Digit[name[Len(name)]]
      pitch  == SubSeq(name, 1, Len(name) - 1)
      index  == CHOOSE i \in 1..Len(NOTE_BASE) : NOTE_BASE[i] = pitch
  IN  (index - 1) + 12 * (octave + 1)

\* 440 * 2^((n - 69)/12) for the notes 120..131, in centihertz
TopOctaveHz ==
  <<837202, 886984, 939727, 995606, 1054808, 1117530,
    1183982, 1254385, 1328975, 1408000, 1491724, 1580427>>

RECURSIVE Pow2(_)
Pow2(n) == IF n = 0 THEN 1 ELSE 2 * Pow2(n - 1)

\* synthio.midi_to_hz: equal temperament, A4 (note 69) = 440 Hz, an octave
\* down halves the frequency.  Centihertz.
midi_to_hz(note) == TopOctaveHz[(note % 12) + 1] \div Pow2(10 - (note \div 12))

\* sin(2 pi k / 128) * 10^4 for k = 0..32 (the first quarter of the cycle)
QuarterSine ==
  <<0, 491, 980, 1467, 1951, 2430, 2903, 3369, 3827, 4276, 4714, 5141, 5556,
    5957, 6344, 6716, 7071, 7410, 7730, 8032, 8315, 8577, 8819, 9040, 9239,
    9415, 9569, 9700, 9808, 9892, 9952, 9988, 10000>>

wave_size == 128

\* np.sin(np.linspace(0, 2 * np.pi, wave_size, endpoint=False))[k], times 10^4
Sine(k) ==
  LET half == wave_size \div 2
      q    == wave_size \div 4
      j    == k % half
      mag  == IF j <= q THEN QuarterSine[j + 1] ELSE QuarterSine[half - j + 1]
  IN  IF k < half THEN mag ELSE -mag

\* conversion of a float to a signed integer: truncation toward zero
Trunc(num, den) == IF num >= 0 THEN num \div den ELSE -((-num) \div den)

\* the oscillator table: sine * wave_max_value as int16
SineTable(loudness) ==
  LET wave_max_value == Trunc(loudness * 31000, 100)
  IN  [k \in 1..wave_size |-> Trunc(Sine(k - 1) * wave_max_value, 10000)]

(***************************************************************************)
(* The state of one Chime and of the synthesizer it drives.                *)
(***************************************************************************)
VARIABLES
  _voice, _material, _striker, _scale_offset, _loudness,
  _note_envelope, _overtones, _scale, _wave_sine,
  _notes,       \* the attribute strike() assigns; "unset" before the first strike
  synth,        \* the commands received by synthio.Synthesizer, in order
  noteCount,    \* synthio.Note objects created so far (an object's identity)
  scaleNames,   \* history: the name list last resolved into _scale
  strikeLog,    \* history: the arguments of each strike() and the loudness then
  lastCall,     \* history: the operation that produced this state
  pc, chime_index, direction, notes_to_play, count,  \* the wind script
  gusts         \* history: note sequences the wind script has built

chimeVars == <<_voice, _material, _striker, _scale_offset, _loudness,
               _note_envelope, _overtones, _scale, _wave_sine, _notes,
               synth, noteCount, scaleNames, strikeLog, lastCall>>
windVars == <<pc, chime_index, direction, notes_to_play, count, gusts>>
vars == <<chimeVars, windVars>>

(***************************************************************************)
(* Inputs.                                                                 *)
(***************************************************************************)
VoiceTags    == {Voice.Bell, Voice.Perfect, Voice.Tubular, "gong"}
MaterialArgs == {Material.SteelEMT, Material.Aluminum}
StrikerArgs  == {Striker.Metal, <<1, 50>>}
OffsetArgs   == {-200, 5, 200}
LoudnessArgs == {50, 100}
ScaleArgs    == {Scale.Westminister, Scale.CeramicBells}
RootNotes    == {69, 127}
Amplitudes   == {40, 100}

(***************************************************************************)
(* Chime.__init__                                                          *)
(***************************************************************************)
\* variant: the upper limit forgotten
ClampNoMax(n) == IF n > 0 THEN n ELSE 0

Clamp(n) == IF (IF n > 0 THEN n ELSE 0) < 127 THEN (IF n > 0 THEN n ELSE 0) ELSE 127

\* the loop that builds the scale table, one append per name
RECURSIVE ScaleTable(_, _, _)
ScaleTable(table, names, offset) ==
  IF names = << >> THEN table
  ELSE ScaleTable(Append(table, Clamp(name_to_note(Head(names)) + offset)),
                  Tail(names), offset)

CreateScale(names, offset) == ScaleTable(<< >>, names, offset)

\* variant: the striker's attack level ratio ignored
EnvelopeMaterialOnly(material, striker) ==
  [attack_time   |-> material[1] + striker[1],
   attack_level  |-> material[2] * 100,
   decay_time    |-> 0,
   release_time  |-> material[3],
   sustain_level |-> 100]

Envelope(material, striker) ==
  [attack_time   |-> material[1] + striker[1],
   attack_level  |-> material[2] * striker[2],
   decay_time    |-> 0,
   release_time  |-> material[3],
   sustain_level |-> 100]

\* variant: the else branch selects the Perfect set
SelectOvertonesElsePerfect(voice) ==
  IF voice = Voice.Bell THEN Overtones.Bell ELSE Overtones.Perfect

SelectOvertones(voice) ==
  IF voice = Voice.Bell THEN Overtones.Bell
  ELSE IF voice = Voice.Perfect THEN Overtones.Perfect
  ELSE Overtones.Tubular

Construct(scale, material, striker, voice, scale_offset, loudness) ==
  /\ _voice = voice
  /\ _material = material
  /\ _striker = striker
  /\ _scale_offset = scale_offset
  /\ _loudness = loudness
  /\ _note_envelope = Envelope(material, striker)
  /\ _overtones = SelectOvertones(voice)
  /\ _scale = CreateScale(scale, scale_offset)
  /\ _wave_sine = SineTable(loudness)
  /\ _notes = "unset"
  /\ synth = << >>
  /\ noteCount = 0
  /\ scaleNames = scale
  /\ strikeLog = << >>
  /\ lastCall = "__init__"

WindIdle ==
  /\ pc = "api"
  /\ chime_index = << >>
  /\ direction = 0
  /\ notes_to_play = 0
  /\ count = 0
  /\ gusts = 0

Init ==
  /\ \E scale \in ScaleArgs, material \in MaterialArgs, striker \in StrikerArgs,
        voice \in VoiceTags, scale_offset \in OffsetArgs, loudness \in LoudnessArgs :
        Construct(scale, material, striker, voice, scale_offset, loudness)
  /\ WindIdle

(***************************************************************************)
(* Chime.scale (setter), Chime.loudness (setter), Chime.strike             *)
(***************************************************************************)
\* variant: the table is not emptied before the names are appended
SetScaleAppend(new_scale) ==
  /\ _scale' = ScaleTable(_scale, new_scale, _scale_offset)
  /\ scaleNames' = new_scale
  /\ lastCall' = "scale"
  /\ UNCHANGED <<_voice, _material, _striker, _scale_offset, _loudness,
                 _note_envelope, _overtones, _wave_sine, _notes, synth,
                 noteCount, strikeLog>>

SetScale(new_scale) ==
  /\ _scale' = CreateScale(new_scale, _scale_offset)
  /\ scaleNames' = new_scale
  /\ lastCall' = "scale"
  /\ UNCHANGED <<_voice, _material, _striker, _scale_offset, _loudness,
                 _note_envelope, _overtones, _wave_sine, _notes, synth,
                 noteCount, strikeLog>>

\* variant: the setter regenerates the oscillator table
SetLoudnessRegenerate(new_loudness) ==
  /\ _loudness' = new_loudness
  /\ _wave_sine' = SineTable(new_loudness)
  /\ lastCall' = "loudness"
  /\ UNCHANGED <<_voice, _material, _striker, _scale_offset,
                 _note_envelope, _overtones, _scale, _notes, synth,
                 noteCount, scaleNames, strikeLog>>

SetLoudness(new_loudness) ==
  /\ _loudness' = new_loudness
  /\ lastCall' = "loudness"
  /\ UNCHANGED <<_voice, _material, _striker, _scale_offset,
                 _note_envelope, _overtones, _scale, _wave_sine, _notes, synth,
                 noteCount, scaleNames, strikeLog>>

\* synthio.Note(frequency, amplitude=, envelope=): the i-th object of a strike
Note(i, root_note_freq, adjusted_amplitude) ==
  [id        |-> noteCount + i,
   frequency |-> root_note_freq * _overtones[i][1],
   amplitude |-> adjusted_amplitude * _overtones[i][2],
   envelope  |-> _note_envelope]

\* variant: the loudness factor is left out of the amplitude
StrikeNotesUnscaled(root_note, amplitude) ==
  LET root_note_freq     == midi_to_hz(root_note)
      adjusted_amplitude == amplitude * 100
  IN  <<Note(1, root_note_freq, adjusted_amplitude),
        Note(2, root_note_freq, adjusted_amplitude),
        Note(3, root_note_freq, adjusted_amplitude),
        Note(4, root_note_freq, adjusted_amplitude)>>

\* the tuple of notes strike() builds: four Note objects, overtones 0 to 3
StrikeNotes(root_note, amplitude) ==
  LET root_note_freq     == midi_to_hz(root_note)
      adjusted_amplitude == amplitude * _loudness
  IN  <<Note(1, root_note_freq, adjusted_amplitude),
        Note(2, root_note_freq, adjusted_amplitude),
        Note(3, root_note_freq, adjusted_amplitude),
        Note(4, root_note_freq, adjusted_amplitude)>>

\* variant: the release is left out
DispatchPressOnly(commands, notes) ==
  commands \o << [op |-> "press", notes |-> notes] >>

\* self.synth.press(self._notes); self.synth.release(self._notes)
Dispatch(commands, notes) ==
  commands \o << [op |-> "press", notes |-> notes],
                 [op |-> "release", notes |-> notes] >>

Strike(root_note, amplitude) ==
  /\ _notes' = StrikeNotes(root_note, amplitude)
  /\ synth' = Dispatch(synth, _notes')
  /\ noteCount' = noteCount + Len(_notes')
  /\ strikeLog' = Append(strikeLog, [root_note |-> root_note,
                                     amplitude |-> amplitude,
                                     loudness  |-> _loudness])
  /\ lastCall' = "strike"
  /\ UNCHANGED <<_voice, _material, _striker, _scale_offset, _loudness,
                 _note_envelope, _overtones, _scale, _wave_sine, scaleNames>>

ScaleAssign ==
  /\ pc = "api"
  /\ \E new_scale \in ScaleArgs : SetScale(new_scale)
  /\ UNCHANGED windVars

LoudnessAssign ==
  /\ pc = "api"
  /\ \E new_loudness \in LoudnessArgs : SetLoudness(new_loudness)
  /\ UNCHANGED windVars

StrikeCall ==
  /\ pc = "api"
  /\ Len(strikeLog) < MaxStrikes
  /\ \E root_note \in RootNotes, amplitude \in Amplitudes : Strike(root_note, amplitude)
  /\ UNCHANGED windVars

Next == ScaleAssign \/ LoudnessAssign \/ StrikeCall

Spec == Init /\ [][Next]_vars

(***************************************************************************)
(* chime_wind_algorithm.py: the script constructs a Chime with default     *)
(* parameters, plays the scale once, then loops over wind-driven note      *)
(* sequences.  The scale (HarryDavidPear in the script) is an input here.  *)
(***************************************************************************)
WIND_SPEED == 0

WindScales ==
  {SubSeq(Scale.HappyBirthday, 1, L) : L \in 1..MaxTubes} \cup {Scale.HarryDavidPear}

\* simpleio.map_range: linear map of x from [in_min, in_max] onto
\* [out_min, out_max], x limited to the input range
map_range(x, in_min, in_max, out_min, out_max) ==
  LET lim == IF x < in_min THEN in_min ELSE IF x > in_max THEN in_max ELSE x
  IN  out_min + Trunc((lim - in_min) * (out_max - out_min), in_max - in_min)

WindInit ==
  /\ \E scale \in WindScales :
        Construct(scale, Material.SteelEMT, Striker.Metal, Voice.Tubular, 0, 50)
  /\ pc = "play_scale"
  /\ chime_index = << >>
  /\ direction = 0
  /\ notes_to_play = 0
  /\ count = 0
  /\ gusts = 0

\* for index, note in enumerate(chime.scale): chime.strike(note, 1)
WindScaleNote ==
  /\ pc = "play_scale"
  /\ count < Len(_scale)
  /\ Strike(_scale[count + 1], 100)
  /\ count' = count + 1
  /\ UNCHANGED <<pc, chime_index, direction, notes_to_play, gusts>>

WindScaleDone ==
  /\ pc = "play_scale"
  /\ count = Len(_scale)
  /\ pc' = "build"
  /\ UNCHANGED <<chime_index, direction, notes_to_play, count, gusts>>
  /\ UNCHANGED chimeVars

\* the loop appending the adjacent tubes: count runs over range(1, len // 2)
RECURSIVE ChimeIndex(_, _, _, _)
ChimeIndex(index, cnt, dir, len) ==
  IF cnt >= len \div 2 THEN index
  ELSE ChimeIndex(Append(index, (index[cnt] + dir) % len), cnt + 1, dir, len)

\* lines 64-73: the first tube, the direction and the number of notes are random
WindBuild ==
  /\ pc = "build"
  /\ gusts < MaxGusts
  /\ Len(_scale) > 0
  /\ \E first \in 0..(Len(_scale) - 1), dir \in {-1, 1} :
       /\ direction' = dir
       /\ chime_index' = ChimeIndex(<<first>>, 1, dir, Len(_scale))
       /\ \E n \in 0..Len(chime_index') : notes_to_play' = n
  /\ count' = 0
  /\ gusts' = gusts + 1
  /\ pc' = "play"
  /\ UNCHANGED chimeVars

\* chime.strike(chime.scale[chime_index[count]], note_amplitude)
WindStrike ==
  /\ pc = "play"
  /\ count < notes_to_play
  /\ Strike(_scale[chime_index[count + 1] + 1], map_range(WIND_SPEED, 0, 50, 40, 100))
  /\ count' = count + 1
  /\ UNCHANGED <<pc, chime_index, direction, notes_to_play, gusts>>

\* the sequence is over: sleep, then the next iteration of while True
WindSleep ==
  /\ pc = "play"
  /\ count = notes_to_play
  /\ pc' = "build"
  /\ UNCHANGED <<chime_index, direction, notes_to_play, count, gusts>>
  /\ UNCHANGED chimeVars

WindNext == WindScaleNote \/ WindScaleDone \/ WindBuild \/ WindStrike \/ WindSleep

WindSpec == WindInit /\ [][WindNext]_vars

(***************************************************************************)
(* Properties.  Press(s) is the press command of the s-th strike, Log(s)   *)
(* its arguments.                                                          *)
(***************************************************************************)
Strikes == 1..Len(strikeLog)
Press(s) == synth[2 * s - 1]
Release(s) == synth[2 * s]
Log(s) == strikeLog[s]
Ids(notes) == {notes[i].id : i \in DOMAIN notes}

\* C1: every strike emits exactly len(overtone set) partial notes, one per
\* (ratio, weight) pair of the selected set, in the set's order, the
\* fundamental first.
C1_OnePartialPerOvertone ==
  \A s \in Strikes :
    /\ Len(Press(s).notes) = Len(_overtones)
    /\ \A i \in 1..Len(_overtones) :
         /\ Press(s).notes[i].frequency = midi_to_hz(Log(s).root_note) * _overtones[i][1]
         /\ Press(s).notes[i].amplitude
              = Log(s).amplitude * Log(s).loudness * _overtones[i][2]

\* C2: partial i of a strike has frequency fundamentalFreq(rootNote) * ratio[i]
\* and amplitude amplitude * loudness * weight[i], the loudness being the one
\* current when strike() was called.
C2_PartialFrequencyAndAmplitude ==
  \A s \in Strikes :
    \A i \in 1..Len(Press(s).notes) :
      /\ Press(s).notes[i].frequency = midi_to_hz(Log(s).root_note) * _overtones[i][1]
      /\ Press(s).notes[i].amplitude
           = Log(s).amplitude * Log(s).loudness * _overtones[i][2]

\* C2 witness: the Tubular voice struck at A4 (440 Hz) with amplitude 1.0 and
\* loudness 0.5 after the loudness was assigned: 440, 1214.4, 2376, 3929.2 Hz
\* at amplitudes 0.30, 0.10, 0.05, 0.05.
C2_Witness ==
  /\ _voice = Voice.Tubular
  /\ Len(strikeLog) = 2
  /\ Log(1).loudness = 100
  /\ Log(2) = [root_note |-> 69, amplitude |-> 100, loudness |-> 50]
  /\ Len(Press(2).notes) = 4
  /\ [i \in 1..4 |-> Press(2).notes[i].frequency]
       = <<4400000, 12144000, 23760000, 39292000>>
  /\ [i \in 1..4 |-> Press(2).notes[i].amplitude]
       = <<300000, 100000, 50000, 50000>>

\* C3: every entry of the resolved scale is an integer in 0..127, and with
\* an offset of 200 every entry is 127.
C3_ScaleInMidiRange ==
  /\ \A i \in 1..Len(_scale) : _scale[i] \in 0..127
  /\ _scale_offset = 200 => \A i \in 1..Len(_scale) : _scale[i] = 127

\* C3 witness: a scale reassigned under offset 200 after a strike.
C3_Witness ==
  /\ _scale_offset = 200
  /\ lastCall = "scale"
  /\ Len(strikeLog) > 0
  /\ Len(_scale) = 4
  /\ \A i \in 1..4 : _scale[i] = 127

\* C4: the synthesizer receives, per strike and in call order, one press of
\* the notes that strike created followed by one release of the same notes,
\* and no note object appears in the commands of two strikes.
C4_PressThenReleasePerStrike ==
  /\ Len(synth) = 2 * Len(strikeLog)
  /\ \A s \in Strikes :
       /\ Press(s).op = "press"
       /\ Release(s).op = "release"
       /\ Release(s).notes = Press(s).notes
       /\ Cardinality(Ids(Press(s).notes)) = Len(Press(s).notes)
       /\ \A t \in Strikes : t < s => Ids(Press(t).notes) \cap Ids(Press(s).notes) = {}
  /\ UNION {Ids(Press(s).notes) : s \in Strikes} = 1..noteCount

\* C4 witness: two strikes, the second with a different loudness.
C4_Witness ==
  /\ Len(strikeLog) = 2
  /\ Len(synth) = 4
  /\ Log(1).loudness # Log(2).loudness
  /\ Press(2).notes # Press(1).notes

C6_LoudnessFrame ==
  [][ /\ lastCall' = "loudness" =>
           UNCHANGED <<_wave_sine, _note_envelope, _overtones, _scale, _notes, synth>>
      /\ lastCall' = "strike" =>
           /\ _wave_sine' = _wave_sine
           /\ \A i \in 1..Len(_notes') :
                _notes'[i].amplitude
                  = strikeLog'[Len(strikeLog')].amplitude * _loudness * _overtones[i][2]
    ]_vars

\* C6 witness: a strike made at a loudness other than the one the oscillator
\* table was generated from.
C6_Witness ==
  /\ lastCall = "strike"
  /\ _wave_sine = SineTable(50)
  /\ _loudness = 100
  /\ _wave_sine[33] = 15500
  /\ Log(Len(strikeLog)).loudness = 100
  /\ _notes[1].amplitude = Log(Len(strikeLog)).amplitude * 100 * _overtones[1][2]

\* C7: the Chime holds no reference to the notes of a past strike.
Retained == IF _notes = "unset" THEN {} ELSE Ids(_notes)

C7_NoRetainedNotes ==
  \A k \in 1..Len(synth) : Ids(synth[k].notes) \cap Retained = {}

\* C8: the envelope is the combination of the material and the striker given
\* at construction, in every state, and every note sent carries it.
C8_EnvelopeCombined ==
  /\ _note_envelope.attack_time = _material[1] + _striker[1]
  /\ _note_envelope.attack_level = _material[2] * _striker[2]
  /\ _note_envelope.decay_time = 0
  /\ _note_envelope.release_time = _material[3]
  /\ _note_envelope.sustain_level = 100
  /\ \A k \in 1..Len(synth) :
       \A i \in 1..Len(synth[k].notes) : synth[k].notes[i].envelope = _note_envelope

\* C8 witness: aluminum (0.02, 0.9, 1.3) struck by a (0.01, 0.5) striker:
\* attack 0.03 s to level 0.45, release 1.3 s, after strikes and assignments.
C8_Witness ==
  /\ _material = Material.Aluminum
  /\ _striker = <<1, 50>>
  /\ _note_envelope.attack_time = 3
  /\ _note_envelope.attack_level = 4500
  /\ _note_envelope.release_time = 130
  /\ Len(strikeLog) = 2
  /\ lastCall = "loudness"
  /\ synth[4].notes[4].envelope.attack_level = 4500

\* C9: Bell selects the Bell set, Perfect the Perfect set, any other tag the
\* Tubular set, and the selected set has ratio 1.0 at index 0.
C9_VoiceSelectsOvertones ==
  /\ _voice = "bell" => _overtones = Overtones.Bell
  /\ _voice = "perfect" => _overtones = Overtones.Perfect
  /\ _voice \notin {"bell", "perfect"} => _overtones = Overtones.Tubular
  /\ _overtones[1][1] = 100

\* C9 witness: an unknown tag, constructed and struck with the Tubular set.
C9_Witness ==
  /\ _voice = "gong"
  /\ _overtones = Overtones.Tubular
  /\ Len(strikeLog) > 0
  /\ Press(1).notes[2].frequency = midi_to_hz(Log(1).root_note) * 276

=============================================================================
